---- MODULE Spec2Model ----
(***************************************************************************)
(* Scalar arithmetic modulo the group order L of Curve25519, and the key   *)
(* derivation built on it (src/src/curve25519/scalar.rs, mod.rs).          *)
(*                                                                         *)
(* TLC integers are 32 bits wide, so a u64 is kept as four 16-bit          *)
(* half-words, least significant first: the function                       *)
(* [0..3 -> 0..65535].  A U256 is the record [limbs |-> [0..3 -> u64]],    *)
(* a U512 the same with eight limbs, and a byte array [u8; n] is a         *)
(* function [0..n-1 -> 0..255].  Indices are the source's, from 0.         *)
(***************************************************************************)
EXTENDS Integers, Sequences, FiniteSets, TLC

VARIABLES
    pc,        \* the operation that produced the current state
    self,      \* the scalar being operated on (`self` of the operators)
    other,     \* the right-hand operand of the last + or *
    third,     \* the third operand of a ring-law test
    out,       \* what the last operation read and computed
    nops,      \* operations applied so far
    private,   \* PrivateKey.bytes
    public,    \* PublicKey.bytes
    stdout,    \* everything written to standard output
    rngCalls   \* how many times the RNG was asked for bytes

vars == <<pc, self, other, third, out, nops, private, public, stdout, rngCalls>>

---------------------------------------------------------------------------
(* u8 and u64 primitives of the language                                   *)

HalfBase == 2 ^ 16

ByteBase == 2 ^ 8

Pow2(n) == 2 ^ n

\* The function f, evaluated at every point of its domain.
Eager(f) == f @@ <<>>

\* y, evaluated after x: TLC evaluates operands on demand, and a chain of
\* pending operands is evaluated on one stack.
Then(x, y) == IF x = x THEN y ELSE y

\* A u64 written as in the source, most significant half-word first.
U64(h3, h2, h1, h0) ==
    Eager([j \in 0..3 |-> CASE j = 0 -> h0 [] j = 1 -> h1 [] j = 2 -> h2 [] j = 3 -> h3])

U64Zero == U64(0, 0, 0, 0)

RECURSIVE BitAnd(_, _, _)
\* a & b on n-bit operands, n a power of two: the low and the high half
BitAnd(a, b, n) ==
    IF n = 1 THEN (IF a = 1 /\ b = 1 THEN 1 ELSE 0)
    ELSE LET h == Pow2(n \div 2)
         IN  BitAnd(a % h, b % h, n \div 2) + h * BitAnd(a \div h, b \div h, n \div 2)

RECURSIVE BitOr(_, _, _)
\* a | b on n-bit operands, n a power of two: the low and the high half
BitOr(a, b, n) ==
    IF n = 1 THEN (IF a = 1 \/ b = 1 THEN 1 ELSE 0)
    ELSE LET h == Pow2(n \div 2)
         IN  BitOr(a % h, b % h, n \div 2) + h * BitOr(a \div h, b \div h, n \div 2)

\* u64::from_le_bytes: chunk[0] is the least significant byte
U64FromLeBytes(chunk) == Eager([j \in 0..3 |-> chunk[2 * j] + ByteBase * chunk[2 * j + 1]])

\* x << n on a u64: bits shifted past bit 63 are lost
Shl64(x, n) ==
    LET k == n \div 16
        s == n % 16
        Hw(j) == IF j < 0 THEN 0 ELSE x[j]
    IN  Eager([j \in 0..3 |->
            ((Hw(j - k) % Pow2(16 - s)) * Pow2(s)) + (Hw(j - k - 1) \div Pow2(16 - s))])

\* x >> n on a u64
Shr64(x, n) ==
    LET k == n \div 16
        s == n % 16
        Hw(j) == IF j > 3 THEN 0 ELSE x[j]
    IN  Eager([j \in 0..3 |->
            (Hw(j + k) \div Pow2(s)) + ((Hw(j + k + 1) % Pow2(s)) * Pow2(16 - s))])

\* x | y on u64
Or64(x, y) == Eager([j \in 0..3 |-> BitOr(x[j], y[j], 16)])

---------------------------------------------------------------------------
(* U256 / U512: the fixed-width integers of the arithmetic module          *)

\* The half-words of an n-limb integer, least significant first.
HalfWords(u, n) == Eager([i \in 0..(4 * n - 1) |-> u.limbs[i \div 4][i % 4]])

\* An n-limb integer from 4n half-words.
FromHalfWords(h, n) ==
    [limbs |-> Eager([i \in 0..(n - 1) |-> Eager([j \in 0..3 |-> h[4 * i + j]])])]

\* The bytes of an n-limb integer, least significant first.
BytesOf(u, n) ==
    Eager([i \in 0..(8 * n - 1) |->
        LET h == u.limbs[i \div 8][(i % 8) \div 2]
        IN  IF i % 2 = 0 THEN h % ByteBase ELSE h \div ByteBase])

\* An n-limb integer from 8n bytes.
FromBytes(b, n) ==
    [limbs |-> Eager([i \in 0..(n - 1) |->
        Eager([j \in 0..3 |-> b[8 * i + 2 * j] + ByteBase * b[8 * i + 2 * j + 1]])])]

\* U256::from(u64)
U256From(x) == [limbs |-> Eager([i \in 0..3 |-> IF i = 0 THEN x ELSE U64Zero])]

RECURSIVE AddDigits(_, _, _, _, _)
\* a + b over half-words i..n-1 with carry-in c: the digits, then the carry
\* out.  The range is halved rather than walked, to keep the evaluation shallow.
AddDigits(a, b, i, n, c) ==
    IF i = n THEN <<c>>
    ELSE IF n = i + 1 THEN
        LET t == a[i] + b[i] + c
        IN  <<t % HalfBase, t \div HalfBase>>
    ELSE
        LET m == (i + n) \div 2
            left == AddDigits(a, b, i, m, c)
            right == AddDigits(a, b, m, n, left[m - i + 1])
        IN  SubSeq(left, 1, m - i) \o right

RECURSIVE SubDigits(_, _, _, _, _)
\* a - b over half-words i..n-1 with borrow-in c: the digits, then the borrow out
SubDigits(a, b, i, n, c) ==
    IF i = n THEN <<c>>
    ELSE IF n = i + 1 THEN
        LET t == a[i] - b[i] - c
        IN  IF t < 0 THEN <<t + HalfBase, 1>> ELSE <<t, 0>>
    ELSE
        LET m == (i + n) \div 2
            left == SubDigits(a, b, i, m, c)
            right == SubDigits(a, b, m, n, left[m - i + 1])
        IN  SubSeq(left, 1, m - i) \o right

\* U256 += U256: carry-propagating, wraps at 2^256
U256Add(a, b) ==
    LET d == AddDigits(HalfWords(a, 4), HalfWords(b, 4), 0, 16, 0)
    IN  Then(<<a, b>>, FromHalfWords([i \in 0..15 |-> d[i + 1]], 4))

\* U256::sub_with_borrow: self - other mod 2^256 and the final borrow
sub_with_borrow(a, b) ==
    LET d == SubDigits(HalfWords(a, 4), HalfWords(b, 4), 0, 16, 0)
    IN  Then(<<a, b>>,
             [value |-> FromHalfWords([i \in 0..15 |-> d[i + 1]], 4), borrow |-> d[17]])

\* U256 - U256, wrapping at 2^256
U256Sub(a, b) == sub_with_borrow(a, b).value

RECURSIVE ColSum(_, _, _, _, _)
\* sum of a[i] * b[k - i] for i in lo..hi
ColSum(a, b, k, i, hi) ==
    IF i > hi THEN 0
    ELSE IF i = hi THEN a[i] * b[k - i]
    ELSE LET m == (i + hi) \div 2
         IN  ColSum(a, b, k, i, m) + ColSum(a, b, k, m + 1, hi)

Max(p, q) == IF p > q THEN p ELSE q

Min(p, q) == IF p < q THEN p ELSE q

RECURSIVE Propagate(_, _, _, _)
\* carry propagation over the column sums k..n-1: the bytes, then the carry out
Propagate(cols, k, n, carry) ==
    IF k = n THEN <<carry>>
    ELSE IF n = k + 1 THEN
        LET t == cols[k] + carry
        IN  <<t % ByteBase, t \div ByteBase>>
    ELSE
        LET m == (k + n) \div 2
            left == Propagate(cols, k, m, carry)
            right == Propagate(cols, m, n, left[m - k + 1])
        IN  SubSeq(left, 1, m - k) \o right

\* The exact product of an na-byte and an nb-byte integer, as na + nb bytes.
MulBytes(a, na, b, nb) ==
    LET cols == Eager([k \in 0..(na + nb - 1) |->
                    ColSum(a, b, k, Max(0, k - nb + 1), Min(k, na - 1))])
        d == Propagate(cols, 0, na + nb, 0)
    IN  Then(<<a, b>>, Then(cols, Eager([k \in 0..(na + nb - 1) |-> d[k + 1]])))

\* U256 * U256 -> U512: the widening product
U256Mul(a, b) == Then(<<a, b>>, FromBytes(MulBytes(BytesOf(a, 4), 32, BytesOf(b, 4), 32), 8))

\* U512 * U256 -> (U256, U512): the high 256 and the low 512 bits of the product
U512Mul(a, b) ==
    LET p == MulBytes(BytesOf(a, 8), 64, BytesOf(b, 4), 32)
    IN  Then(<<a, b>>, Then(p, [hi |-> FromBytes([i \in 0..31 |-> p[64 + i]], 4),
                                 lo |-> FromBytes(p, 8)]))

\* U512::lo: the low 256 bits
lo(u) == [limbs |-> Eager([i \in 0..3 |-> u.limbs[i]])]

\* subtle: u64::ct_eq, a Choice of 1 when equal
ct_eq(x, y) == IF x = y THEN 1 ELSE 0

\* subtle: ConditionallySelectable::conditional_select, b when choice is 1
U256_conditional_select(a, b, choice) == IF choice = 1 THEN b ELSE a

---------------------------------------------------------------------------
(* scalar.rs                                                               *)

L == [limbs |-> Eager([i \in 0..3 |->
        CASE i = 0 -> U64(\h5812, \h631a, \h5cf5, \hd3ed)
          [] i = 1 -> U64(\h14de, \hf9de, \ha2f7, \h9cd6)
          [] i = 2 -> U64(\h0000, \h0000, \h0000, \h0000)
          [] i = 3 -> U64(\h1000, \h0000, \h0000, \h0000)])]

R == [limbs |-> Eager([i \in 0..3 |->
        CASE i = 0 -> U64(\h9fb6, \h7396, \h8c28, \hb04c)
          [] i = 1 -> U64(\hac84, \h1885, \h7421, \h8ca6)
          [] i = 2 -> U64(\hffff, \hffff, \hffff, \hffff)
          [] i = 3 -> U64(\h3fff, \hffff, \hffff, \hffff)])]

\* clamped without `bytes[31] &= 127`
clamped_top_bit_kept(bytes0) ==
    LET bytes1 == [bytes0 EXCEPT ![0] = BitAnd(@, 248, 8)]
        bytes == [bytes1 EXCEPT ![31] = BitOr(@, 64, 8)]
        chunk(i) == [k \in 0..7 |-> bytes[8 * i + k]]
    IN  [value |-> [limbs |-> Eager([i \in 0..3 |-> U64FromLeBytes(chunk(i))])]]

\* Scalar::clamped
clamped(bytes0) ==
    LET bytes1 == [bytes0 EXCEPT ![0] = BitAnd(@, 248, 8)]
        bytes2 == [bytes1 EXCEPT ![31] = BitAnd(@, 127, 8)]
        bytes == [bytes2 EXCEPT ![31] = BitOr(@, 64, 8)]
        chunk(i) == [k \in 0..7 |-> bytes[8 * i + k]]
    IN  [value |-> [limbs |-> Eager([i \in 0..3 |-> U64FromLeBytes(chunk(i))])]]

\* ConditionallySelectable for Scalar
conditional_select(a, b, choice) ==
    [value |-> U256_conditional_select(a.value, b.value, choice)]

\* reduce_after_addition selecting on a borrow of 1 instead of 0
reduce_after_addition_inverted(s) ==
    LET sub == sub_with_borrow(s.value, L)
        l_removed == [value |-> sub.value]
    IN  conditional_select(s, l_removed, ct_eq(sub.borrow, 1))

\* reduce_after_addition subtracting L whatever the borrow
reduce_after_addition_unconditional(s) == [value |-> sub_with_borrow(s.value, L).value]

\* Scalar::reduce_after_addition
reduce_after_addition(s) ==
    LET sub == sub_with_borrow(s.value, L)
        l_removed == [value |-> sub.value]
    IN  conditional_select(s, l_removed, ct_eq(sub.borrow, 0))

\* the quotient estimate with the shift one bit short: bits 505.. of large * R
barret_q_shift_505(large) ==
    LET prod == U512Mul(large, R)
        hi == prod.hi
        lw == prod.lo
    IN  Then(prod, [limbs |-> Eager([i \in 0..3 |->
            CASE i = 0 -> Or64(Shl64(hi.limbs[0], 7), Shr64(lw.limbs[7], 57))
              [] i = 1 -> Or64(Shl64(hi.limbs[1], 7), Shr64(hi.limbs[0], 57))
              [] i = 2 -> Or64(Shl64(hi.limbs[2], 7), Shr64(hi.limbs[1], 57))
              [] i = 3 -> Or64(Shl64(hi.limbs[3], 7), Shr64(hi.limbs[2], 57))])])

\* The quotient estimate of Scalar::reduce_barret: bits 506.. of large * R
barret_q(large) ==
    LET prod == U512Mul(large, R)
        hi == prod.hi
        lw == prod.lo
    IN  Then(prod, [limbs |-> Eager([i \in 0..3 |->
            CASE i = 0 -> Or64(Shl64(hi.limbs[0], 6), Shr64(lw.limbs[7], 58))
              [] i = 1 -> Or64(Shl64(hi.limbs[1], 6), Shr64(hi.limbs[0], 58))
              [] i = 2 -> Or64(Shl64(hi.limbs[2], 6), Shr64(hi.limbs[1], 58))
              [] i = 3 -> Or64(Shl64(hi.limbs[3], 6), Shr64(hi.limbs[2], 58))])])

\* reduce_barret without the final conditional subtraction
reduce_barret_unreduced(large) ==
    [value |-> U256Sub(lo(large), lo(U256Mul(barret_q(large), L)))]

\* Scalar::reduce_barret
reduce_barret(large) ==
    LET q == barret_q(large)
        to_subtract == U256Mul(q, L)
        scalar == [value |-> U256Sub(lo(large), lo(to_subtract))]
    IN  Then(q, Then(to_subtract, Then(scalar, reduce_after_addition(scalar))))

\* From<u64> for Scalar
ScalarFrom(x) == [value |-> U256From(x)]

\* add_assign without the reduction
add_assign_unreduced(s, o) == [value |-> U256Add(s.value, o.value)]

\* AddAssign for Scalar
add_assign(s, o) == reduce_after_addition([value |-> U256Add(s.value, o.value)])

\* mul_assign reducing only the low half of the product
mul_assign_low_half(s, o) ==
    LET large == U256Mul(s.value, o.value)
        low == [limbs |-> Eager([i \in 0..7 |-> IF i < 4 THEN large.limbs[i] ELSE U64Zero])]
    IN  Then(large, reduce_barret(low))

\* MulAssign for Scalar
mul_assign(s, o) ==
    LET large == U256Mul(s.value, o.value)
    IN  Then(large, reduce_barret(large))

\* Add for Scalar
add(a, b) == add_assign(a, b)

\* Mul for Scalar
mul(a, b) == mul_assign(a, b)

---------------------------------------------------------------------------
(* Inputs                                                                  *)

NumSamples == 6

NumBytes == 4

NumU64 == 4

MaxOps == 2

ZeroBytes == [i \in 0..31 |-> 0]

ZeroScalar == ScalarFrom(U64Zero)

\* Scalar { value: U256 { limbs: [l0, l1, l2, l3] } }
ScalarOf(l0, l1, l2, l3) ==
    [value |-> [limbs |-> Eager([i \in 0..3 |->
        CASE i = 0 -> l0 [] i = 1 -> l1 [] i = 2 -> l2 [] i = 3 -> l3])]]

\* L - U256::from(1), the l_minus_1 of the tests
l_minus_1 == [value |-> U256Sub(L, U256From(U64(0, 0, 0, 1)))]

\* The i-th reduced scalar (value < L) the operations are tried on: the
\* values of the tests' examples first, then values below 2^252 as
\* arb_scalar draws them.
Sample(i) ==
    CASE i = 1 -> ScalarFrom(U64(0, 0, 0, 0))
      [] i = 2 -> ScalarFrom(U64(0, 0, 0, 1))
      [] i = 3 -> l_minus_1
      [] i = 4 -> ScalarOf(U64(0, 0, 0, 1), U64(0, 0, 0, 1), U64(0, 0, 0, 1), U64(0, 0, 0, 1))
      [] i = 5 -> ScalarFrom(U64(0, 0, 0, 20))
      [] i = 6 -> ScalarOf(U64(\hffff, \hffff, \hffff, \hffff), U64(\hffff, \hffff, \hffff, \hffff),
                           U64(\hffff, \hffff, \hffff, \hffff), U64(\h0fff, \hffff, \hffff, \hfffe))
      [] OTHER -> [value |-> FromHalfWords(
                      [d \in 0..15 |->
                          LET h == (i * 7919 * (d + 1) + 31 * d + i) % HalfBase
                          IN  IF d = 15 THEN h % 4096 ELSE h], 4)]

Samples == {Sample(i) : i \in 1..NumSamples}

\* The i-th 32-byte input of clamped.
ByteInput(i) ==
    CASE i = 1 -> [k \in 0..31 |-> 255]
      [] i = 2 -> [k \in 0..31 |-> 0]
      [] i = 3 -> [k \in 0..31 |-> k + 1]
      [] OTHER -> [k \in 0..31 |-> (i * 89 * (k + 3) + 167 * k) % ByteBase]

ByteInputs == {ByteInput(i) : i \in 1..NumBytes}

\* The i-th u64 given to Scalar::from.
U64Input(i) ==
    CASE i = 1 -> U64(0, 0, 0, 0)
      [] i = 2 -> U64(0, 0, 0, 1)
      [] i = 3 -> U64(\hffff, \hffff, \hffff, \hffff)
      [] OTHER -> U64((i * 40503) % HalfBase, (i * 9973) % HalfBase, (i * 257) % HalfBase, i)

U64Inputs == {U64Input(i) : i \in 1..NumU64}

---------------------------------------------------------------------------
(* Spec: sequences of the operations that produce a Scalar                 *)

Init ==
    /\ pc = "new"
    /\ self \in Samples
    /\ other = ZeroScalar
    /\ third = ZeroScalar
    /\ out = <<>>
    /\ nops = 0
    /\ private = ZeroBytes
    /\ public = ZeroBytes
    /\ stdout = <<>>
    /\ rngCalls = 0

Clamped(bytes) ==
    /\ nops < MaxOps
    /\ pc' = "clamped"
    /\ self' = clamped(bytes)
    /\ other' = ZeroScalar
    /\ out' = bytes
    /\ nops' = nops + 1
    /\ UNCHANGED <<third, private, public, stdout, rngCalls>>

From(x) ==
    /\ nops < MaxOps
    /\ pc' = "from"
    /\ self' = ScalarFrom(x)
    /\ other' = ZeroScalar
    /\ out' = x
    /\ nops' = nops + 1
    /\ UNCHANGED <<third, private, public, stdout, rngCalls>>

AddAssign(o) ==
    /\ nops < MaxOps
    /\ pc' = "add"
    /\ self' = add_assign(self, o)
    /\ other' = o
    /\ out' = self
    /\ nops' = nops + 1
    /\ UNCHANGED <<third, private, public, stdout, rngCalls>>

MulAssign(o) ==
    /\ nops < MaxOps
    /\ pc' = "mul"
    /\ self' = mul_assign(self, o)
    /\ other' = o
    /\ out' = self
    /\ nops' = nops + 1
    /\ UNCHANGED <<third, private, public, stdout, rngCalls>>

Next ==
    \/ \E bytes \in ByteInputs : Clamped(bytes)
    \/ \E x \in U64Inputs : From(x)
    \/ \E o \in Samples : AddAssign(o)
    \/ \E o \in Samples : MulAssign(o)

Spec == Init /\ [][Next]_vars

---------------------------------------------------------------------------
(* Exact integers, for stating the claims: a number is its half-words,     *)
(* least significant first, over 0..n-1.                                   *)

\* The half-words of a U256 padded with zeros to n half-words.
Num(u, n) == Eager([i \in 0..(n - 1) |-> IF i < 16 THEN u.limbs[i \div 4][i % 4] ELSE 0])

\* The half-words of a U512 padded with zeros to n half-words.
Num512(u, n) == Eager([i \in 0..(n - 1) |-> IF i < 32 THEN u.limbs[i \div 4][i % 4] ELSE 0])

\* a < b on numbers of n half-words: they differ, and a is the smaller at
\* the most significant half-word where they do
NumLess(a, b, n) ==
    \E i \in 0..(n - 1) :
        /\ a[i] < b[i]
        /\ \A j \in (i + 1)..(n - 1) : a[j] = b[j]

\* a + b exactly for a + b < 2^(16n)
NumSum(a, b, n) ==
    LET d == AddDigits(a, b, 0, n, 0)
    IN  Then(<<a, b>>, Eager([i \in 0..(n - 1) |-> d[i + 1]]))

\* value < L
Reduced(s) == NumLess(Num(s.value, 16), Num(L, 16), 16)

\* a.value + b.value = r.value + k * L for k = 0 or k = 1
SumModL(a, b, r) ==
    LET s == NumSum(Num(a.value, 17), Num(b.value, 17), 17)
    IN  \/ s = Num(r.value, 17)
        \/ s = NumSum(Num(r.value, 17), Num(L, 17), 17)

\* C1: for operands below L, + and += give (a + b) mod L: a value below L
\* that differs from a + b by 0 or by L; (L-1) + 1 = 0 and (L-1) + 20 = 19.
C1_AdditionExact ==
    pc = "add" /\ Reduced(out) /\ Reduced(other) =>
        /\ Reduced(self)
        /\ SumModL(out, other, self)
        /\ out = l_minus_1 /\ other = ScalarFrom(U64(0, 0, 0, 1)) => self = ScalarFrom(U64(0, 0, 0, 0))
        /\ out = l_minus_1 /\ other = ScalarFrom(U64(0, 0, 0, 20)) => self = ScalarFrom(U64(0, 0, 0, 19))

\* An addition whose sum reached L and was reduced: (L-1) + 20 = 19.
C1_Witness ==
    /\ pc = "add"
    /\ out = l_minus_1
    /\ other = ScalarFrom(U64(0, 0, 0, 20))
    /\ self = ScalarFrom(U64(0, 0, 0, 19))

\* a.value * b.value = r.value + k * L, where k is the quotient estimate of
\* reduce_barret or that estimate plus one
ProdModL(a, b, r) ==
    LET large == U256Mul(a.value, b.value)
        qL == Num512(U256Mul(barret_q(large), L), 33)
        s0 == NumSum(qL, Num(r.value, 33), 33)
        s1 == NumSum(s0, Num(L, 33), 33)
        x == Num512(large, 33)
    IN  Then(large, Then(qL, Then(s0, x = s0 \/ x = s1)))

\* C2: for operands below L, * and *= give (a * b) mod L: a value below L
\* that differs from a * b by a multiple of L; (L-1) * (L-1) = 1.
C2_MultiplicationExact ==
    pc = "mul" /\ Reduced(out) /\ Reduced(other) =>
        /\ Reduced(self)
        /\ ProdModL(out, other, self)
        /\ out = l_minus_1 /\ other = l_minus_1 => self = ScalarFrom(U64(0, 0, 0, 1))

\* The product (L-1) * (L-1) was reduced to 1.
C2_Witness ==
    /\ pc = "mul"
    /\ out = l_minus_1
    /\ other = l_minus_1
    /\ self = ScalarFrom(U64(0, 0, 0, 1))

\* bit p (0..255) of a U256
ValueBit(u, p) == (u.limbs[p \div 64][(p % 64) \div 16] \div Pow2(p % 16)) % 2

\* bit p (0..255) of 32 bytes read as a little-endian integer
ByteBit(b, p) == (b[p \div 8] \div Pow2(p % 8)) % 2

\* C4: clamped gives the little-endian integer of its input with bits 0, 1, 2
\* (byte 0) and bit 255 (bit 7 of byte 31) cleared and bit 254 (bit 6 of
\* byte 31) set; every other bit is the input's, so limb i holds bytes
\* 8i..8i+7, least significant first.
C4_ClampedBits ==
    pc = "clamped" =>
        /\ DOMAIN self.value.limbs = 0..3
        /\ \A i \in 0..3 : \A j \in 0..3 : self.value.limbs[i][j] \in 0..(HalfBase - 1)
        /\ \A p \in 0..255 :
              ValueBit(self.value, p) =
                  IF p \in {0, 1, 2, 255} THEN 0
                  ELSE IF p = 254 THEN 1
                  ELSE ByteBit(out, p)

\* clamped was given bytes whose bits 0, 1, 2 and 255 were set.
C4_Witness ==
    /\ pc = "clamped"
    /\ ByteBit(out, 0) = 1 /\ ByteBit(out, 1) = 1 /\ ByteBit(out, 2) = 1
    /\ ByteBit(out, 255) = 1
    /\ ValueBit(self.value, 0) = 0 /\ ValueBit(self.value, 255) = 0

\* C5 as stated: after any operation that produces a Scalar, value < L.
C5_RangeInvariant == pc \in {"clamped", "from", "add", "mul"} => Reduced(self)

\* C5 amended: From<u64> gives a value below L, and so do + and * on operands
\* below L; clamped gives a value in [2^254, 2^255), which is not below L.
C5_RangeAmended ==
    /\ pc = "from" => Reduced(self)
    /\ pc \in {"add", "mul"} /\ Reduced(out) /\ Reduced(other) => Reduced(self)
    /\ pc = "clamped" =>
          /\ ValueBit(self.value, 254) = 1
          /\ ValueBit(self.value, 255) = 0
          /\ ~Reduced(self)

\* A product of two reduced scalars, the left one itself the result of an
\* earlier operation.
C5_Witness ==
    /\ pc = "mul"
    /\ nops = 2
    /\ Reduced(out) /\ Reduced(other) /\ Reduced(self)
    /\ self # ZeroScalar

---------------------------------------------------------------------------
(* SpecFn: the two private reductions, applied to drawn operands           *)

NumWide == 4

\* The i-th scalar whose value is not below L: L, 2L - 1, L + 19, 2L, then
\* reduced samples plus L.
Unreduced(i) ==
    CASE i = 1 -> [value |-> L]
      [] i = 2 -> [value |-> U256Add(l_minus_1.value, L)]
      [] i = 3 -> [value |-> U256Add(L, U256From(U64(0, 0, 0, 19)))]
      [] i = 4 -> [value |-> U256Add(L, L)]
      [] OTHER -> [value |-> U256Add(Sample(i).value, L)]

Wide == Samples \cup {Unreduced(i) : i \in 1..NumWide}

InitFn ==
    /\ pc = "new"
    /\ self \in Wide
    /\ other \in Samples
    /\ third = ZeroScalar
    /\ out = <<>>
    /\ nops = 0
    /\ private = ZeroBytes
    /\ public = ZeroBytes
    /\ stdout = <<>>
    /\ rngCalls = 0

\* self.reduce_after_addition(), up to twice in a row
ReduceAfterAddition ==
    /\ pc \in {"new", "reduced"}
    /\ nops < 2
    /\ pc' = "reduced"
    /\ self' = reduce_after_addition(self)
    /\ out' = [before |-> self, orig |-> IF nops = 0 THEN self ELSE out.orig]
    /\ nops' = nops + 1
    /\ UNCHANGED <<other, third, private, public, stdout, rngCalls>>

\* Scalar::reduce_barret(self.value * other.value)
ReduceBarret ==
    /\ pc = "new"
    /\ pc' = "barret"
    /\ LET large == U256Mul(self.value, other.value)
       IN  /\ out' = [a |-> self, large |-> large]
           /\ self' = reduce_barret(out'.large)
    /\ nops' = nops + 1
    /\ UNCHANGED <<other, third, private, public, stdout, rngCalls>>

NextFn ==
    \/ ReduceAfterAddition
    \/ ReduceBarret

SpecFn == InitFn /\ [][NextFn]_vars

\* 2L as 17 half-words
TwoL == NumSum(Num(L, 17), Num(L, 17), 17)

\* value < 2L
Below2L(s) == NumLess(Num(s.value, 17), TwoL, 17)

\* C8: reduce_after_addition leaves a value below L unchanged, takes a value
\* v with L <= v < 2L to v - L, and so changes nothing when applied a second
\* time to a value that was below 2L.
C8_ReduceIdempotent ==
    pc = "reduced" =>
        /\ Reduced(out.before) => self = out.before
        /\ ~Reduced(out.before) /\ Below2L(out.before) =>
              /\ Reduced(self)
              /\ NumSum(Num(self.value, 17), Num(L, 17), 17) = Num(out.before.value, 17)
        /\ nops = 2 /\ Below2L(out.orig) => self = out.before

\* The reduction was applied twice to a value in [L, 2L): the first
\* application subtracted L, the second kept the value.
C8_Witness ==
    /\ pc = "reduced"
    /\ nops = 2
    /\ ~Reduced(out.orig) /\ Below2L(out.orig)
    /\ out.before # out.orig
    /\ self = out.before

\* bit p of an integer given as bytes, least significant first
BytesBit(b, p) == (b[p \div 8] \div Pow2(p % 8)) % 2

\* x - q * L for the operands of the last reduce_barret, as 33 half-words and
\* the final borrow
BarretRest ==
    SubDigits(Num512(out.large, 33),
              Num512(U256Mul(barret_q(out.large), L), 33), 0, 33, 0)

\* C10: for x = a * b with a, b below L, the estimate q is bits 506..761 of
\* x * R with nothing above bit 761 lost; q * L <= x < q * L + 2L, that is
\* floor(x / L) - 1 <= q <= floor(x / L); the subtraction of the low halves is
\* x - q * L exactly; and the result is below L.
C10_BarretEstimate ==
    pc = "barret" /\ Reduced(out.a) /\ Reduced(other) =>
        LET xR == MulBytes(BytesOf(out.large, 8), 64, BytesOf(R, 4), 32)
            q == barret_q(out.large)
            d == BarretRest
            rest == Eager([i \in 0..16 |-> d[i + 1]])
            low == U256Sub(lo(out.large), lo(U256Mul(q, L)))
        IN  /\ \A p \in 0..255 : ValueBit(q, p) = BytesBit(xR, 506 + p)
            /\ \A p \in 762..767 : BytesBit(xR, p) = 0
            /\ d[34] = 0
            /\ \A i \in 17..33 : d[i] = 0
            /\ NumLess(rest, TwoL, 17)
            /\ Num(low, 17) = rest
            /\ Reduced(self)
            /\ \/ Num(self.value, 17) = rest
               \/ NumSum(Num(self.value, 17), Num(L, 17), 17) = rest

\* A product whose estimate is one short: x - q * L is at least L, and the
\* conditional subtraction brings it below L.
C10_Witness ==
    /\ pc = "barret"
    /\ Reduced(out.a) /\ Reduced(other)
    /\ BarretRest[34] = 0
    /\ ~NumLess([i \in 0..16 |-> BarretRest[i + 1]], Num(L, 17), 17)
    /\ Reduced(self)

---------------------------------------------------------------------------
(* SpecRing: the property tests of scalar.rs on drawn scalars              *)

NumRing == 5

RingSamples == {Sample(i) : i \in 1..NumRing}

InitRing ==
    /\ pc = "new"
    /\ self \in RingSamples
    /\ other \in RingSamples
    /\ third \in RingSamples
    /\ out = <<>>
    /\ nops = 0
    /\ private = ZeroBytes
    /\ public = ZeroBytes
    /\ stdout = <<>>
    /\ rngCalls = 0

\* A test that ran: out' holds the two sides of each assert_eq!.
Ran(name, asserts) ==
    /\ pc = "new"
    /\ pc' = name
    /\ out' = asserts
    /\ nops' = nops + 1
    /\ UNCHANGED <<self, other, third, private, public, stdout, rngCalls>>

test_addition_commutative ==
    Ran("test_addition_commutative", << <<add(self, other), add(other, self)>> >>)

test_addition_associative ==
    Ran("test_addition_associative",
        << <<add(self, add(other, third)), add(add(self, other), third)>> >>)

test_add_zero_identity ==
    LET zero == ScalarFrom(U64(0, 0, 0, 0))
    IN  Ran("test_add_zero_identity", << <<add(self, zero), self>>, <<add(zero, self), self>> >>)

test_multiplication_commutative ==
    Ran("test_multiplication_commutative", << <<mul(self, other), mul(other, self)>> >>)

test_multiplication_associative ==
    Ran("test_multiplication_associative",
        << <<mul(self, mul(other, third)), mul(mul(self, other), third)>> >>)

test_multiplication_distributive ==
    Ran("test_multiplication_distributive",
        << <<mul(self, add(other, third)), add(mul(self, other), mul(self, third))>> >>)

test_multiply_one_identity ==
    LET one == ScalarFrom(U64(0, 0, 0, 1))
    IN  Ran("test_multiply_one_identity", << <<mul(self, one), self>>, <<mul(one, self), self>> >>)

NextRing ==
    \/ test_addition_commutative
    \/ test_addition_associative
    \/ test_add_zero_identity
    \/ test_multiplication_commutative
    \/ test_multiplication_associative
    \/ test_multiplication_distributive
    \/ test_multiply_one_identity

SpecRing == InitRing /\ [][NextRing]_vars

\* C3: on scalars below L, + and * are commutative and associative, * distributes
\* over +, and Scalar::from(0) and Scalar::from(1) are their identities: every
\* assert_eq! of the seven property tests compares equal limbs.
C3_RingLaws ==
    pc \notin {"new"} =>
        /\ Reduced(self) /\ Reduced(other) /\ Reduced(third)
        /\ \A i \in DOMAIN out : out[i][1] = out[i][2]

\* The distributive law held where the inner sum wraps past L and the
\* products need the conditional subtraction: a = b = L - 1.
C3_Witness ==
    /\ pc = "test_multiplication_distributive"
    /\ self = l_minus_1
    /\ other = l_minus_1
    /\ third = Sample(4)
    /\ out[1][1] = out[1][2]
    /\ Reduced(out[1][1])

---------------------------------------------------------------------------
(* mod.rs: key derivation.  SpecKeys runs gen_keypair step by step and then *)
(* derives the public key again from the same private key.                 *)

NumSeeds == 10

MaxDerive == 2

\* The i-th 32 bytes the RNG supplies; the first is the private key of
\* test_key_derivation_examples.
Seed(i) ==
    CASE i = 1 -> [k \in 0..31 |->
                    <<\h9d, \h61, \hb1, \h9d, \hef, \hfd, \h5a, \h60,
                      \hba, \h84, \h4a, \hf4, \h92, \hec, \h2c, \hc4,
                      \h44, \h49, \hc5, \h69, \h7b, \h32, \h69, \h19,
                      \h70, \h3b, \hac, \h03, \h1c, \hae, \h7f, \h60>>[k + 1]]
      [] OTHER -> [k \in 0..31 |-> (i * 101 * (k + 1) + 59 * k + i) % ByteBase]

Seeds == {Seed(i) : i \in 1..NumSeeds}

\* sha512::hash: the hash is an external primitive; only that it is a fixed
\* function from bytes to 64 bytes is used.  This one mixes every input byte
\* into both halves of the output.
sha512_hash(bytes) ==
    Eager([i \in 0..63 |->
        (bytes[i % 32] * 31 + bytes[(7 * i + 3) % 32] * 17 + 131 * i + 89) % ByteBase])

\* hash[32..]
hash_high32(hash) == Eager([i \in 0..31 |-> hash[32 + i]])

\* hash[..32]
hash_low32(hash) == Eager([i \in 0..31 |-> hash[i]])

\* &point::B * scalar: the point module is not modelled; the product is
\* named by the scalar that produced it.
point_mul_B(scalar) == [base |-> "B", times |-> scalar.value]

\* Point into [u8; 32]: the compressed encoding, a fixed function of the point.
point_into_bytes(p) ==
    LET b == BytesOf(p.times, 4)
    IN  Eager([i \in 0..31 |-> (b[i] + 3 * b[31 - i] + i) % ByteBase])

HexChars == <<"0", "1", "2", "3", "4", "5", "6", "7", "8", "9", "A", "B", "C", "D", "E", "F">>

RECURSIVE UpperHexDigits(_, _)
\* the hexadecimal digits of the u64 x from nibble n down to nibble 0
UpperHexDigits(x, n) ==
    LET nibble == (x[n \div 4] \div Pow2(4 * (n % 4))) % 16
    IN  IF n = 0 THEN <<HexChars[nibble + 1]>>
        ELSE <<HexChars[nibble + 1]>> \o UpperHexDigits(x, n - 1)

RECURSIVE StripZeros(_)
\* digits without leading zeros, "0" for zero
StripZeros(d) == IF Len(d) > 1 /\ d[1] = "0" THEN StripZeros(Tail(d)) ELSE d

\* {:X} of a u64
UpperHex(x) == StripZeros(UpperHexDigits(x, 15))

\* println!("scalar: {:X?}", scalar): the line written
debug_line(scalar) ==
    [text |-> "scalar: ",
     limbs |-> <<UpperHex(scalar.value.limbs[0]), UpperHex(scalar.value.limbs[1]),
                 UpperHex(scalar.value.limbs[2]), UpperHex(scalar.value.limbs[3])>>]

NoPoint == [base |-> "none", times |-> U256From(U64Zero)]

InitKeys ==
    /\ pc = "start"
    /\ self = ZeroScalar
    /\ other = ZeroScalar
    /\ third = ZeroScalar
    /\ out = [seed |-> ZeroBytes, hash |-> [i \in 0..63 |-> 0], point |-> NoPoint,
              first |-> ZeroBytes]
    /\ nops = 0
    /\ private = ZeroBytes
    /\ public = ZeroBytes
    /\ stdout = <<>>
    /\ rngCalls = 0

\* gen_keypair: rng.fill_bytes(&mut private.bytes)
FillBytes(seed) ==
    /\ pc = "start"
    /\ pc' = "filled"
    /\ private' = seed
    /\ rngCalls' = rngCalls + 1
    /\ out' = [out EXCEPT !.seed = seed]
    /\ UNCHANGED <<self, other, third, nops, public, stdout>>

\* derive_public_key: let hash = sha512::hash(&self.bytes)
Hash ==
    /\ \/ pc = "filled"
       \/ pc = "derived" /\ nops < MaxDerive
    /\ pc' = "hashed"
    /\ out' = [out EXCEPT !.hash = sha512_hash(private)]
    /\ UNCHANGED <<self, other, third, nops, private, public, stdout, rngCalls>>

\* derive_public_key: let scalar = Scalar::clamped(hash[..32])
Clamp ==
    /\ pc = "hashed"
    /\ pc' = "clamped"
    /\ self' = clamped(hash_low32(out.hash))
    /\ UNCHANGED <<other, third, out, nops, private, public, stdout, rngCalls>>

\* derive_public_key: println!("scalar: {:X?}", scalar)
Println ==
    /\ pc = "clamped"
    /\ pc' = "printed"
    /\ stdout' = Append(stdout, debug_line(self))
    /\ UNCHANGED <<self, other, third, out, nops, private, public, rngCalls>>

\* derive_public_key: &point::B * scalar
PointMul ==
    /\ pc = "printed"
    /\ pc' = "multiplied"
    /\ out' = [out EXCEPT !.point = point_mul_B(self)]
    /\ UNCHANGED <<self, other, third, nops, private, public, stdout, rngCalls>>

\* derive_public_key: PublicKey { bytes: (..).into() }
Into ==
    /\ pc = "multiplied"
    /\ pc' = "derived"
    /\ public' = point_into_bytes(out.point)
    /\ out' = [out EXCEPT !.first = IF nops = 0 THEN public' ELSE @]
    /\ nops' = nops + 1
    /\ UNCHANGED <<self, other, third, private, stdout, rngCalls>>

NextKeys ==
    \/ \E seed \in Seeds : FillBytes(seed)
    \/ Hash
    \/ Clamp
    \/ Println
    \/ PointMul
    \/ Into

SpecKeys == InitKeys /\ [][NextKeys]_vars

RECURSIVE HexValue(_)
\* the number a sequence of hexadecimal digits writes, below 2^16
HexValue(d) ==
    IF d = <<>> THEN 0
    ELSE 16 * HexValue(SubSeq(d, 1, Len(d) - 1))
         + (CHOOSE n \in 0..15 : HexChars[n + 1] = d[Len(d)])

\* the u64 a sequence of at most 16 hexadecimal digits writes
ParseHex(d) ==
    [j \in 0..3 |->
        LET hi == Len(d) - 4 * j
            lw == Max(1, hi - 3)
        IN  IF hi < 1 THEN 0 ELSE HexValue(SubSeq(d, lw, hi))]

\* the line spells out the four limbs of the scalar
Reveals(line, scalar) ==
    \A i \in 0..3 : ParseHex(line.limbs[i + 1]) = scalar.value.limbs[i]

\* C6: key derivation writes nothing secret: no line of standard output
\* spells out the clamped secret scalar.
C6_NoSecretOutput ==
    \A n \in DOMAIN stdout : ~Reveals(stdout[n], clamped(hash_low32(sha512_hash(private))))

\* derive_public_key as one function of the private bytes
DerivedFrom(bytes) ==
    LET hash == sha512_hash(bytes)
        scalar == clamped([i \in 0..31 |-> hash[i]])
    IN  point_into_bytes([base |-> "B", times |-> scalar.value])

\* C7: gen_keypair asks the RNG for the private bytes once; the public key is
\* the compression of B times the clamped first 32 bytes of the hash of the
\* private key returned beside it; a second derivation from the same private
\* key gives the same public key; and derivation leaves the private bytes as
\* the RNG supplied them.
C7_KeygenDeterministic ==
    /\ pc # "start" => rngCalls = 1 /\ private = out.seed
    /\ pc = "hashed" => out.hash = sha512_hash(private)
    /\ pc = "derived" => public = DerivedFrom(private)
    /\ pc = "derived" /\ nops >= 2 => public = out.first

\* The key of the test vector was derived a second time, with the same result.
C7_Witness ==
    /\ pc = "derived"
    /\ nops = 2
    /\ private = Seed(1)
    /\ rngCalls = 1
    /\ public = out.first
    /\ public # ZeroBytes

====
